---- MODULE Spec2Model ----
(***************************************************************************)
(* Model of the club backend (src/main.py): the clubconfig singleton kept  *)
(* in the document store, the fallback selector and the Play-Cricket       *)
(* client and normaliser behind GET /api/fixtures and GET /api/results.    *)
(*                                                                         *)
(* Every store call (find_one, insert_one, update_one) and the outbound    *)
(* HTTP call is one atomic step of the request that makes it; the Python   *)
(* code between two such calls runs with the step that follows it.         *)
(***************************************************************************)
EXTENDS Integers, Sequences, FiniteSets, TLC

VARIABLES
    clubconfig,   \* the "clubconfig" collection: documents in insertion order
    nextId,       \* the next ObjectId the driver generates
    now,          \* the wall clock (datetime.utcnow), in microseconds
    envKey,       \* os.getenv("PLAY_CRICKET_API_KEY")
    upstream,     \* the JSON body Play-Cricket answers a successful call with
    pc,           \* per request worker: where its handler stands
    site,         \* per worker: who called get_club_config ("handler" | "fetch")
    req,          \* per worker: the request being served
    cfg,          \* per worker: the handler's local cfg (main.py:186, 219)
    existing,     \* per worker: save_club_config's local existing (main.py:82)
    query,        \* per worker: the query fetch_play_cricket sends (main.py:109)
    calls,        \* per worker: outcomes of the outbound calls of this request
    resp,         \* per worker: the response of the request
    snap,         \* per worker: the collection as it was when the request began
    gets,         \* outputs of the GET /api/club-config calls since the last POST
    lastPost,     \* payload of the last completed POST /api/club-config
    nPosts        \* completed POST /api/club-config calls, counted up to two

vars == <<clubconfig, nextId, now, envKey, upstream, pc, site, req, cfg,
          existing, query, calls, resp, snap, gets, lastPost, nPosts>>

-----------------------------------------------------------------------------
(* Bounds *)

\* the clock stops after this many sub-millisecond steps
MaxTicks == 2
\* a match record of the large input set has at most this many fields present
MaxSet == 2
\* the longest upstream match list
MaxMatches == 11
\* the explicit limits tried: -MaxNegLimit .. MaxSmallLimit, and around the default
MaxNegLimit == 2
MaxSmallLimit == 3

\* request workers (the server's thread pool runs sync handlers concurrently)
Procs == {"w1", "w2"}
\* the worker of the sequential specifications
SeqProc == "w1"

-----------------------------------------------------------------------------
(* Python values *)

\* None (and JSON null)
Null == "null"
\* a key that a dict does not hold
Missing == "missing"
\* the empty string
Empty == ""
\* JSON true / false
JTrue == "true"
JFalse == "false"

\* Python truthiness, as `or` and `not` use it
Truthy(v) == v \notin {Null, Missing, Empty, JFalse}

\* a or b
PyOr(a, b) == IF Truthy(a) THEN a ELSE b

\* m.get(k): None for a key the dict does not hold
DictGet(m, k) == IF m[k] = Missing THEN Null ELSE m[k]

Min(a, b) == IF a <= b THEN a ELSE b
Max(a, b) == IF a >= b THEN a ELSE b

\* s[:k], Python's slice: a negative k counts from the end
Slice(s, k) ==
    IF k >= 0 THEN SubSeq(s, 1, Min(k, Len(s)))
              ELSE SubSeq(s, 1, Max(Len(s) + k, 0))

-----------------------------------------------------------------------------
(* The clock and the document store *)

\* datetime.utcnow() has microsecond resolution; BSON dates keep milliseconds
MsMicros == 1000
SubMsStep == MsMicros \div 2
MaxNow == MaxTicks * SubMsStep

\* the values a datetime.utcnow() call may return when the clock read t last
ClockReads(t) == {u \in {t, t + SubMsStep} : u <= MaxNow}

\* a datetime as the store keeps it (truncated to the millisecond)
StoreDate(t) == t - (t % MsMicros)

\* find_one found nothing (None); ObjectIds start at 1
NoDoc == [_id |-> 0, club_name |-> Null, play_cricket_club_id |-> Null,
          play_cricket_team_id |-> Null, play_cricket_api_key |-> Null,
          created_at |-> 0, updated_at |-> 0]

\* col.find_one({}): the first document in natural order
FindOne(col) == IF col = <<>> THEN NoDoc ELSE col[1]

\* col.insert_one(doc): the document as stored under the new _id
InsertOne(col, doc, id) ==
    Append(col, [doc EXCEPT !._id = id,
                            !.created_at = StoreDate(@),
                            !.updated_at = StoreDate(@)])

\* the config fields of a payload or a document
ConfigOf(d) == [club_name |-> d.club_name,
                play_cricket_club_id |-> d.play_cricket_club_id,
                play_cricket_team_id |-> d.play_cricket_team_id,
                play_cricket_api_key |-> d.play_cricket_api_key]

\* as MergeData, had the payload been dumped without its None fields
MergeDataSkipNone(doc, payload, t) ==
    [doc EXCEPT !.club_name =
                    IF payload.club_name = Null THEN @ ELSE payload.club_name,
                !.play_cricket_club_id =
                    IF payload.play_cricket_club_id = Null THEN @ ELSE payload.play_cricket_club_id,
                !.play_cricket_team_id =
                    IF payload.play_cricket_team_id = Null THEN @ ELSE payload.play_cricket_team_id,
                !.play_cricket_api_key =
                    IF payload.play_cricket_api_key = Null THEN @ ELSE payload.play_cricket_api_key,
                !.updated_at = t]

\* existing.update(data): data is the payload's four fields and updated_at
MergeData(doc, payload, t) ==
    [doc EXCEPT !.club_name = payload.club_name,
                !.play_cricket_club_id = payload.play_cricket_club_id,
                !.play_cricket_team_id = payload.play_cricket_team_id,
                !.play_cricket_api_key = payload.play_cricket_api_key,
                !.updated_at = t]

\* col.update_one({"_id": id}, {"$set": data})
UpdateOne(col, id, payload, t) ==
    [i \in 1..Len(col) |->
        IF col[i]._id = id THEN MergeData(col[i], payload, StoreDate(t))
                           ELSE col[i]]

\* the default document of get_club_config
DefaultDoc(t1, t2) ==
    [_id |-> 0, club_name |-> "Sankalp", play_cricket_club_id |-> Null,
     play_cricket_team_id |-> Null, play_cricket_api_key |-> Null,
     created_at |-> t1, updated_at |-> t2]

\* doc["id"] = str(doc.get("_id")) if doc.get("_id") else None; doc.pop("_id")
\* (str of an ObjectId is one-to-one: the id is kept as the number, 0 for None)
ToOut(doc) ==
    [id |-> doc._id, club_name |-> doc.club_name,
     play_cricket_club_id |-> doc.play_cricket_club_id,
     play_cricket_team_id |-> doc.play_cricket_team_id,
     play_cricket_api_key |-> doc.play_cricket_api_key,
     created_at |-> doc.created_at, updated_at |-> doc.updated_at]

NoOut == ToOut(NoDoc)

-----------------------------------------------------------------------------
(* Sample data, the fallback selector and the normaliser *)

\* sample_fixtures(): the dates are today + 2 and today + 9 days
sample_fixtures ==
    << [date |-> "today+2", opposition |-> "Greenfield CC", home_away |-> "Home",
        ground |-> "Sankalp Oval", competition |-> "Friendly T20",
        start_time |-> "18:00"],
       [date |-> "today+9", opposition |-> "Riverside CC", home_away |-> "Away",
        ground |-> "Riverside Park", competition |-> "League",
        start_time |-> "12:30"] >>

\* sample_results(): the dates are today - 3 and today - 10 days
sample_results ==
    << [date |-> "today-3", opposition |-> "Harbor CC", home_away |-> "Away",
        ground |-> "Harbor Field", competition |-> "League",
        result |-> "Sankalp won by 5 wickets",
        score |-> "Harbor 148/8 (40) - Sankalp 149/5 (37.2)"],
       [date |-> "today-10", opposition |-> "Hilltop CC", home_away |-> "Home",
        ground |-> "Sankalp Oval", competition |-> "Friendly T20",
        result |-> "Sankalp lost by 7 runs",
        score |-> "Hilltop 162/6 (20) - Sankalp 155/7 (20)"] >>

\* the default of the limit query parameter
DefaultLimit == 10

\* the handler's limit: the given value, or the parameter's default when unset
LimitParam(l) == IF l.given THEN l.val ELSE DefaultLimit

\* limit or 10
LimitOr(n) == IF n # 0 THEN n ELSE DefaultLimit

\* cfg.get("play_cricket_api_key") or os.getenv("PLAY_CRICKET_API_KEY")
ResolveKey(c, env) == PyOr(c.play_cricket_api_key, env)

\* as Incomplete, had the selector looked at the stored key alone
IncompleteNoEnv(c, env) ==
    \/ ~Truthy(c.play_cricket_club_id)
    \/ ~Truthy(c.play_cricket_team_id)
    \/ ~Truthy(c.play_cricket_api_key)

\* not club_id or not team_id or not (key from the config or the environment)
Incomplete(c, env) ==
    \/ ~Truthy(c.play_cricket_club_id)
    \/ ~Truthy(c.play_cricket_team_id)
    \/ ~Truthy(ResolveKey(c, env))

\* as HomeAway, had the flag been given precedence over the field
HomeAwayFlagFirst(m) ==
    IF DictGet(m, "is_home") # Null
    THEN (IF Truthy(DictGet(m, "is_home")) THEN "Home" ELSE "Away")
    ELSE PyOr(DictGet(m, "home_away"), "Away")

\* m.get("home_away") or ("Home" if m.get("is_home") else "Away")
HomeAway(m) ==
    PyOr(DictGet(m, "home_away"),
         IF Truthy(DictGet(m, "is_home")) THEN "Home" ELSE "Away")

\* as Resolve, had the candidates been tried in the other order
ResolveSecondFirst(m, first, second) == PyOr(DictGet(m, second), DictGet(m, first))

\* m.get(first) or m.get(second)
Resolve(m, first, second) == PyOr(DictGet(m, first), DictGet(m, second))

\* the view get_fixtures appends for the match record m
NormalizeFixture(m) ==
    [date |-> Resolve(m, "match_date", "date"),
     opposition |-> Resolve(m, "opposition_club_name", "opposition_name"),
     home_away |-> HomeAway(m),
     ground |-> Resolve(m, "ground_name", "ground"),
     competition |-> Resolve(m, "competition_name", "competition"),
     start_time |-> Resolve(m, "start_time", "start_time_formatted")]

\* the view get_results appends for the match record m
NormalizeResult(m) ==
    [date |-> Resolve(m, "match_date", "date"),
     opposition |-> Resolve(m, "opposition_club_name", "opposition_name"),
     home_away |-> HomeAway(m),
     ground |-> Resolve(m, "ground_name", "ground"),
     competition |-> Resolve(m, "competition_name", "competition"),
     result |-> Resolve(m, "result", "result_description"),
     score |-> Resolve(m, "home_club_scorecard", "score_summary")]

\* raw.get("matches", raw.get("data", []))
MatchList(raw) ==
    IF raw.has_matches THEN raw.matches
    ELSE IF raw.has_data THEN raw.data
    ELSE <<>>

\* the items list the handler builds from the upstream body
Normalized(kind, raw) ==
    LET ms == MatchList(raw) IN
    [i \in 1..Len(ms) |->
        IF kind = "fixtures" THEN NormalizeFixture(ms[i]) ELSE NormalizeResult(ms[i])]

Sample(kind) == IF kind = "fixtures" THEN sample_fixtures ELSE sample_results

NoResp == [status |-> 0, source |-> "none", items |-> <<>>, doc |-> NoOut,
           detail |-> "none"]

\* a raised HTTPException
Failure(code, what) == [NoResp EXCEPT !.status = code, !.detail = what]

\* return {"source": "sample", "items": sample_...()[: limit or 10]}
SampleResponse(kind, l) ==
    [NoResp EXCEPT !.status = 200, !.source = "sample",
                   !.items = Slice(Sample(kind), LimitOr(LimitParam(l)))]

\* as CallResponse, had a failed call fallen back to the sample data
CallResponseFallback(kind, outcome, raw, l) ==
    IF outcome = "ok"
    THEN [NoResp EXCEPT !.status = 200, !.source = "play-cricket",
                        !.items = Slice(Normalized(kind, raw), LimitOr(LimitParam(l)))]
    ELSE SampleResponse(kind, l)

\* what the handler answers once requests.get ended with `outcome`
CallResponse(kind, outcome, raw, l) ==
    IF outcome = "non200" THEN Failure(502, "Play-Cricket API error")
    ELSE IF outcome = "transport" THEN Failure(502, "Error contacting Play-Cricket API")
    ELSE [NoResp EXCEPT !.status = 200, !.source = "play-cricket",
                        !.items = Slice(Normalized(kind, raw), LimitOr(LimitParam(l)))]

\* the response of GET and POST /api/club-config
ConfigResponse(out) == [NoResp EXCEPT !.status = 200, !.doc = out]

-----------------------------------------------------------------------------
(* Inputs *)

\* ClubConfigIn: club_name defaults to "Sankalp", the other fields to None
ClubConfigIn ==
    [club_name : {"Sankalp", "Rovers"},
     play_cricket_club_id : {Null, Empty, "club-1"},
     play_cricket_team_id : {Null, Empty, "team-1"},
     play_cricket_api_key : {Null, Empty, "key-1"}]

CompleteConfig ==
    [club_name |-> "Rovers", play_cricket_club_id |-> "club-1",
     play_cricket_team_id |-> "team-1", play_cricket_api_key |-> "key-1"]

\* the payloads the concurrent clients post: a complete config, and one that
\* clears the api key
ConcPayloads ==
    {CompleteConfig, [CompleteConfig EXCEPT !.play_cricket_api_key = Null]}

NoPayload == [club_name |-> Null, play_cricket_club_id |-> Null,
              play_cricket_team_id |-> Null, play_cricket_api_key |-> Null]

\* the environment's key: unset (getenv gives None), empty, or set
EnvKeys == {Null, Empty, "env-key"}

\* the limit query parameter: unset, or an integer
Unset == [given |-> FALSE, val |-> 0]
Given(n) == [given |-> TRUE, val |-> n]
ConcLimits == {Unset}
SeqLimits == {Unset, Given(1)}
LimitInputs ==
    {Unset} \cup {Given(n) : n \in (0 - MaxNegLimit)..MaxSmallLimit}
            \cup {Given(DefaultLimit), Given(DefaultLimit + 1)}

\* the fields of an upstream match record the handlers read
MatchFields ==
    {"match_date", "date", "opposition_club_name", "opposition_name",
     "home_away", "is_home", "ground_name", "ground", "competition_name",
     "competition", "start_time", "start_time_formatted", "result",
     "result_description", "home_club_scorecard", "score_summary"}

\* the i-th value a present field may hold: null, empty (false for the flag),
\* or a value of its own (the field's name; true for the flag)
FieldValue(f, i) ==
    IF i = 1 THEN Null
    ELSE IF f = "is_home" THEN (IF i = 2 THEN JFalse ELSE JTrue)
    ELSE (IF i = 2 THEN Empty ELSE f)

\* the match records with at most MaxSet fields present
MatchRecords ==
    UNION { { [f \in MatchFields |-> IF f \in S THEN FieldValue(f, g[f]) ELSE Missing]
              : g \in [S -> 1..3] }
            : S \in {T \in SUBSET MatchFields : Cardinality(T) <= MaxSet} }

\* two full records: one with every first candidate, one with every second
RecFirst ==
    [f \in MatchFields |->
        IF f \in {"match_date", "opposition_club_name", "home_away", "ground_name",
                  "competition_name", "start_time", "result", "home_club_scorecard"}
        THEN f ELSE Missing]
RecSecond ==
    [f \in MatchFields |->
        IF f \in {"date", "opposition_name", "ground", "competition",
                  "start_time_formatted", "result_description", "score_summary"}
        THEN f ELSE IF f = "is_home" THEN JTrue ELSE Missing]

\* a match list of length n, its records alternating
MatchListOf(n) == [i \in 1..n |-> IF i % 2 = 1 THEN RecFirst ELSE RecSecond]

\* a JSON body with the list under "matches", under "data", under both keys
\* (another list under "data"), or under neither
Body(key, ms) ==
    [has_matches |-> key \in {"matches", "both"},
     matches |-> IF key \in {"matches", "both"} THEN ms ELSE <<>>,
     has_data |-> key \in {"data", "both"},
     data |-> IF key = "data" THEN ms ELSE IF key = "both" THEN <<RecSecond>> ELSE <<>>]

\* bodies of one record each, the record any of the large input set
NormUpstreams == {Body("matches", <<m>>) : m \in MatchRecords}

\* bodies of every length up to MaxMatches, under every key
ListUpstreams ==
    {Body(k, MatchListOf(n)) : k \in {"matches", "data", "both", "none"},
                               n \in 0..MaxMatches}

NoQuery == [apikey |-> Null, club_id |-> Null, team_id |-> Null,
            match_status |-> Null]

NoRequest == [kind |-> "none", payload |-> NoPayload, limit |-> Unset]

\* the last two entries of a history
LastTwo(h) == IF Len(h) <= 2 THEN h ELSE SubSeq(h, Len(h) - 1, Len(h))

-----------------------------------------------------------------------------
(* Initial states *)

InitWorkers ==
    /\ pc = [p \in Procs |-> "idle"]
    /\ site = [p \in Procs |-> "handler"]
    /\ req = [p \in Procs |-> NoRequest]
    /\ cfg = [p \in Procs |-> NoOut]
    /\ existing = [p \in Procs |-> NoDoc]
    /\ query = [p \in Procs |-> NoQuery]
    /\ calls = [p \in Procs |-> <<>>]
    /\ resp = [p \in Procs |-> NoResp]
    /\ snap = [p \in Procs |-> <<>>]
    /\ gets = <<>>
    /\ lastPost = NoPayload
    /\ nPosts = 0

\* a config document as an earlier POST left it in the store
StoredConfig(c) ==
    [_id |-> 1, club_name |-> c.club_name,
     play_cricket_club_id |-> c.play_cricket_club_id,
     play_cricket_team_id |-> c.play_cricket_team_id,
     play_cricket_api_key |-> c.play_cricket_api_key,
     created_at |-> 0, updated_at |-> 0]

\* the server starts on an empty collection; the clock stands at its bound (no
\* claim about concurrent requests reads a timestamp), the environment sets no key
Init ==
    /\ clubconfig = <<>>
    /\ nextId = 1
    /\ now = MaxNow
    /\ envKey = Null
    /\ upstream = Body("matches", MatchListOf(2))
    /\ InitWorkers

\* one client at a time: the collection is empty or holds any one config
InitSeq ==
    /\ clubconfig \in {<<>>} \cup {<<StoredConfig(c)>> : c \in ClubConfigIn}
    /\ nextId = Len(clubconfig) + 1
    /\ now = 0
    /\ envKey \in EnvKeys
    /\ upstream = Body("matches", MatchListOf(2))
    /\ InitWorkers

\* a configured club, and any one-record upstream body of the large input set
InitNorm ==
    /\ clubconfig = <<StoredConfig(CompleteConfig)>>
    /\ nextId = 2
    /\ now = 0
    /\ envKey = Null
    /\ upstream \in NormUpstreams
    /\ InitWorkers

\* a configured club or one with no integration fields, and an upstream list of
\* any length
InitLimit ==
    /\ clubconfig \in {<<StoredConfig(CompleteConfig)>>, <<StoredConfig(NoPayload)>>}
    /\ nextId = 2
    /\ now = 0
    /\ envKey = Null
    /\ upstream \in ListUpstreams
    /\ InitWorkers

-----------------------------------------------------------------------------
(* Requests *)

\* a worker takes up request r: fresh locals, the response not yet written
Begin(p, r, at) ==
    /\ pc' = [pc EXCEPT ![p] = at]
    /\ site' = [site EXCEPT ![p] = "handler"]
    /\ req' = [req EXCEPT ![p] = r]
    /\ cfg' = [cfg EXCEPT ![p] = NoOut]
    /\ existing' = [existing EXCEPT ![p] = NoDoc]
    /\ query' = [query EXCEPT ![p] = NoQuery]
    /\ calls' = [calls EXCEPT ![p] = <<>>]
    /\ resp' = [resp EXCEPT ![p] = NoResp]
    /\ snap' = [snap EXCEPT ![p] = clubconfig]
    /\ UNCHANGED <<clubconfig, nextId, now, envKey, upstream, gets, lastPost, nPosts>>

\* GET /api/club-config arrives
StartGetConfig(p) ==
    /\ pc[p] = "idle"
    /\ Begin(p, [NoRequest EXCEPT !.kind = "get_config"], "cfg_find")

\* POST /api/club-config arrives with a validated payload
StartSaveConfig(p, payload) ==
    /\ pc[p] = "idle"
    /\ Begin(p, [NoRequest EXCEPT !.kind = "post_config", !.payload = payload],
             "save_find")

\* GET /api/fixtures?limit= arrives
StartFixtures(p, l) ==
    /\ pc[p] = "idle"
    /\ Begin(p, [NoRequest EXCEPT !.kind = "fixtures", !.limit = l], "cfg_find")

\* GET /api/results?limit= arrives
StartResults(p, l) ==
    /\ pc[p] = "idle"
    /\ Begin(p, [NoRequest EXCEPT !.kind = "results", !.limit = l], "cfg_find")

\* get_club_config returned `out` to its caller: the code that runs up to the
\* next store call, the outbound call or the response
Returned(p, out) ==
    IF req[p].kind = "get_config"
    THEN \* get_config: return get_club_config()
         /\ resp' = [resp EXCEPT ![p] = ConfigResponse(out)]
         /\ pc' = [pc EXCEPT ![p] = "idle"]
         /\ gets' = LastTwo(Append(gets, out))
         /\ UNCHANGED <<site, cfg, query>>
    ELSE IF site[p] = "handler"
    THEN \* get_fixtures / get_results: the fallback selector
         /\ cfg' = [cfg EXCEPT ![p] = out]
         /\ IF Incomplete(out, envKey)
            THEN /\ resp' = [resp EXCEPT ![p] = SampleResponse(req[p].kind, req[p].limit)]
                 /\ pc' = [pc EXCEPT ![p] = "idle"]
                 /\ site' = site
            ELSE /\ resp' = resp
                 /\ pc' = [pc EXCEPT ![p] = "cfg_find"]
                 /\ site' = [site EXCEPT ![p] = "fetch"]
         /\ UNCHANGED <<query, gets>>
    ELSE \* fetch_play_cricket: resolve the key, build the query
         /\ IF ~Truthy(ResolveKey(out, envKey))
            THEN /\ resp' = [resp EXCEPT ![p] = Failure(400, "Play-Cricket API key not configured")]
                 /\ pc' = [pc EXCEPT ![p] = "idle"]
                 /\ query' = query
            ELSE /\ resp' = resp
                 /\ pc' = [pc EXCEPT ![p] = "call"]
                 /\ query' = [query EXCEPT ![p] =
                        [apikey |-> ResolveKey(out, envKey),
                         club_id |-> cfg[p].play_cricket_club_id,
                         team_id |-> cfg[p].play_cricket_team_id,
                         match_status |-> IF req[p].kind = "fixtures"
                                          THEN "Fixture" ELSE "Result"]]
         /\ UNCHANGED <<site, cfg, gets>>

\* as GetClubConfigFind, had the `if not doc` test been lost
GetClubConfigFindAlways(p) ==
    /\ pc[p] = "cfg_find"
    /\ pc' = [pc EXCEPT ![p] = "cfg_insert"]
    /\ UNCHANGED <<clubconfig, nextId, now, envKey, upstream, site, req, cfg,
                   existing, query, calls, resp, snap, gets, lastPost, nPosts>>

\* get_club_config: doc = col.find_one({})
GetClubConfigFind(p) ==
    /\ pc[p] = "cfg_find"
    /\ IF FindOne(clubconfig) # NoDoc
       THEN Returned(p, ToOut(FindOne(clubconfig)))
       ELSE /\ pc' = [pc EXCEPT ![p] = "cfg_insert"]
            /\ UNCHANGED <<site, cfg, query, resp, gets>>
    /\ UNCHANGED <<clubconfig, nextId, now, envKey, upstream, req, existing,
                   calls, snap, lastPost, nPosts>>

\* get_club_config: col.insert_one(default_doc); the driver sets the dict's
\* _id, and the dict keeps the microseconds the store drops
GetClubConfigInsert(p) ==
    /\ pc[p] = "cfg_insert"
    /\ \E t1 \in ClockReads(now) : \E t2 \in ClockReads(t1) :
           /\ now' = t2
           /\ clubconfig' = InsertOne(clubconfig, DefaultDoc(t1, t2), nextId)
           /\ nextId' = nextId + 1
           /\ Returned(p, ToOut([DefaultDoc(t1, t2) EXCEPT !._id = nextId]))
    /\ UNCHANGED <<envKey, upstream, req, existing, calls, snap, lastPost, nPosts>>

\* save_club_config: existing = col.find_one({})
SaveFind(p) ==
    /\ pc[p] = "save_find"
    /\ existing' = [existing EXCEPT ![p] = FindOne(clubconfig)]
    /\ pc' = [pc EXCEPT ![p] = "save_write"]
    /\ UNCHANGED <<clubconfig, nextId, now, envKey, upstream, site, req, cfg,
                   query, calls, resp, snap, gets, lastPost, nPosts>>

\* the document save_club_config inserts when it found none
NewDoc(payload, t1, t2) ==
    [MergeData(NoDoc, payload, t1) EXCEPT !.created_at = t2]

\* save_club_config: update_one on the document found, or insert_one
SaveWrite(p) ==
    /\ pc[p] = "save_write"
    /\ \E t1 \in ClockReads(now) :
           IF existing[p] # NoDoc
           THEN /\ now' = t1
                /\ clubconfig' = UpdateOne(clubconfig, existing[p]._id, req[p].payload, t1)
                /\ nextId' = nextId
                /\ resp' = [resp EXCEPT ![p] =
                       ConfigResponse(ToOut(MergeData(existing[p], req[p].payload, t1)))]
           ELSE \E t2 \in ClockReads(t1) :
                /\ now' = t2
                /\ clubconfig' = InsertOne(clubconfig, NewDoc(req[p].payload, t1, t2), nextId)
                /\ nextId' = nextId + 1
                /\ resp' = [resp EXCEPT ![p] =
                       ConfigResponse(ToOut([NewDoc(req[p].payload, t1, t2)
                                                EXCEPT !._id = nextId]))]
    /\ pc' = [pc EXCEPT ![p] = "idle"]
    /\ lastPost' = req[p].payload
    /\ nPosts' = Min(nPosts + 1, 2)
    /\ gets' = <<>>
    /\ UNCHANGED <<envKey, upstream, site, req, cfg, existing, query, calls, snap>>

\* fetch_play_cricket: requests.get answers 200 with a JSON object, answers
\* another status, or raises a RequestException; the handler normalises and
\* returns.  (The season parameter only travels in the query; no response
\* depends on it.)
PlayCricketCall(p) ==
    /\ pc[p] = "call"
    /\ \E outcome \in {"ok", "non200", "transport"} :
           /\ calls' = [calls EXCEPT ![p] = Append(@, outcome)]
           /\ resp' = [resp EXCEPT ![p] =
                  CallResponse(req[p].kind, outcome, upstream, req[p].limit)]
    /\ pc' = [pc EXCEPT ![p] = "idle"]
    /\ UNCHANGED <<clubconfig, nextId, now, envKey, upstream, site, req, cfg,
                   existing, query, snap, gets, lastPost, nPosts>>

-----------------------------------------------------------------------------
(* Specifications *)

\* concurrent requests, their store steps interleaved
Next ==
    \E p \in Procs :
        \/ StartGetConfig(p)
        \/ \E payload \in ConcPayloads : StartSaveConfig(p, payload)
        \/ \E l \in ConcLimits : StartFixtures(p, l)
        \/ \E l \in ConcLimits : StartResults(p, l)
        \/ GetClubConfigFind(p)
        \/ GetClubConfigInsert(p)
        \/ SaveFind(p)
        \/ SaveWrite(p)
        \/ PlayCricketCall(p)

Spec == Init /\ [][Next]_vars

\* one request after another, with any payload
NextSeq ==
    \/ StartGetConfig(SeqProc)
    \/ \E payload \in ClubConfigIn : StartSaveConfig(SeqProc, payload)
    \/ \E l \in SeqLimits : StartFixtures(SeqProc, l)
    \/ \E l \in SeqLimits : StartResults(SeqProc, l)
    \/ GetClubConfigFind(SeqProc)
    \/ GetClubConfigInsert(SeqProc)
    \/ SaveFind(SeqProc)
    \/ SaveWrite(SeqProc)
    \/ PlayCricketCall(SeqProc)

SpecSeq == InitSeq /\ [][NextSeq]_vars

\* fixtures and results requests of a configured club
NextNorm ==
    \/ \E l \in SeqLimits : StartFixtures(SeqProc, l)
    \/ \E l \in SeqLimits : StartResults(SeqProc, l)
    \/ GetClubConfigFind(SeqProc)
    \/ PlayCricketCall(SeqProc)

SpecNorm == InitNorm /\ [][NextNorm]_vars

\* fixtures and results requests with any limit
NextLimit ==
    \/ \E l \in LimitInputs : StartFixtures(SeqProc, l)
    \/ \E l \in LimitInputs : StartResults(SeqProc, l)
    \/ GetClubConfigFind(SeqProc)
    \/ PlayCricketCall(SeqProc)

SpecLimit == InitLimit /\ [][NextLimit]_vars

-----------------------------------------------------------------------------
(* Claims.  S is the worker of the sequential specifications. *)

S == SeqProc

\* the request of worker p is a fixtures or results request
IsMatches(p) == req[p].kind \in {"fixtures", "results"}

\* worker p has answered its request
Answered(p) == pc[p] = "idle" /\ resp[p].status # 0

\* C1: under any interleaving of the requests' store steps the clubconfig
\* collection holds at most one document.
C1_AtMostOneConfig == Len(clubconfig) <= 1

\* C10: no fixtures or results request ends with the 400 "API key not configured"
\* error, whatever POST /api/club-config runs between its two config reads.
C10_NeverConfigurationMissing ==
    \A p \in Procs : IsMatches(p) => resp[p].status # 400

\* C9: a request makes at most one outbound call, and when that call answers a
\* non-200 status or fails in transport the request ends with 502, no source and
\* no items.
C9_UpstreamFailureIsGatewayError ==
    \A p \in Procs :
        /\ Len(calls[p]) <= 1
        /\ (calls[p] # <<>> /\ calls[p][1] \in {"non200", "transport"})
              => /\ pc[p] = "idle"
                 /\ resp[p].status = 502
                 /\ resp[p].source = "none"
                 /\ resp[p].items = <<>>

C9_Witness ==
    \E p \in Procs, q \in Procs :
        /\ calls[p] = <<"non200">> /\ resp[p].status = 502
        /\ calls[q] = <<"transport">> /\ resp[q].status = 502

\* a config value counts as absent when it is null or the empty string
Absent(v) == v \in {Null, Empty}

\* C2: a sequential fixtures or results request answers source "sample" with the
\* sample set (both items when no limit is given) exactly when the stored club_id
\* is absent, or the team_id is, or neither the stored key nor the environment
\* gives a key; in every other case it calls the third-party client, once, with
\* the stored ids and the resolved key, and a 200 answer has source
\* "play-cricket".
C2_SampleIffIncomplete ==
    (IsMatches(S) /\ Answered(S)) =>
        LET c == clubconfig[1]
            sampleCase ==
                \/ Absent(c.play_cricket_club_id)
                \/ Absent(c.play_cricket_team_id)
                \/ (Absent(c.play_cricket_api_key) /\ Absent(envKey))
        IN  /\ sampleCase <=> (resp[S].status = 200 /\ resp[S].source = "sample")
            /\ sampleCase =>
                  /\ calls[S] = <<>>
                  /\ resp[S].items =
                        IF req[S].kind = "fixtures"
                        THEN (IF req[S].limit.given THEN <<sample_fixtures[1]>>
                                                    ELSE sample_fixtures)
                        ELSE (IF req[S].limit.given THEN <<sample_results[1]>>
                                                    ELSE sample_results)
            /\ ~sampleCase =>
                  /\ Len(calls[S]) = 1
                  /\ query[S].club_id = c.play_cricket_club_id
                  /\ query[S].team_id = c.play_cricket_team_id
                  /\ query[S].apikey = IF Absent(c.play_cricket_api_key)
                                       THEN envKey ELSE c.play_cricket_api_key
                  /\ resp[S].status \in {200, 502}
                  /\ resp[S].status = 200 => resp[S].source = "play-cricket"

C2_Witness ==
    /\ IsMatches(S) /\ Answered(S)
    /\ clubconfig[1].play_cricket_api_key = Empty
    /\ envKey = "env-key"
    /\ resp[S].source = "play-cricket"

\* C6: after two or more sequential POST /api/club-config calls the collection
\* holds exactly one record, and its four config fields are those of the last
\* payload.
C6_LastPayloadStored ==
    nPosts = 2 =>
        /\ Len(clubconfig) = 1
        /\ clubconfig[1].club_name = lastPost.club_name
        /\ clubconfig[1].play_cricket_club_id = lastPost.play_cricket_club_id
        /\ clubconfig[1].play_cricket_team_id = lastPost.play_cricket_team_id
        /\ clubconfig[1].play_cricket_api_key = lastPost.play_cricket_api_key

\* the second POST has overwritten a record whose key and ids it clears
C6_Witness ==
    /\ nPosts = 2
    /\ req[S].kind = "post_config" /\ Answered(S)
    /\ snap[S] # <<>>
    /\ ConfigOf(snap[S][1]) = CompleteConfig
    /\ lastPost = [NoPayload EXCEPT !.club_name = "Sankalp"]

\* C7: two consecutive GET /api/club-config calls with no POST between them
\* return the same output (id and timestamps included), and the second leaves
\* the store as it found it.
C7_RepeatedGetIdentical ==
    Len(gets) = 2 =>
        /\ gets[1] = gets[2]
        /\ (req[S].kind = "get_config" /\ Answered(S)) => clubconfig = snap[S]

\* C8 as stated: a fixtures or results request leaves the collection as it found
\* it, also when it found no clubconfig record.
C8_NoStoreEffect ==
    IsMatches(S) => clubconfig = snap[S]

\* C8 as amended: a fixtures or results request leaves the collection unchanged
\* when a clubconfig record exists; when none exists its config read inserts the
\* default record (club_name "Sankalp", the integration fields null), and that
\* is the only change.
C8_OnlyLazyDefault ==
    IsMatches(S) =>
        /\ snap[S] # <<>> => clubconfig = snap[S]
        /\ snap[S] = <<>> =>
              \/ clubconfig = <<>>
              \/ /\ Len(clubconfig) = 1
                 /\ ConfigOf(clubconfig[1]) = [NoPayload EXCEPT !.club_name = "Sankalp"]
        /\ Answered(S) => clubconfig # <<>>

C8_Witness ==
    /\ IsMatches(S) /\ Answered(S)
    /\ snap[S] = <<>>
    /\ Len(clubconfig) = 1

\* the list a request's items are cut from: the sample set, or the normalised
\* upstream records
Candidates(p) ==
    IF resp[p].source = "sample" THEN Sample(req[p].kind)
    ELSE Normalized(req[p].kind, upstream)

\* C3: the items returned are the first min(n, limit) candidates when limit > 0,
\* and the first min(n, 10) when the limit is unset, zero or negative.
C3_LimitTruncation ==
    (IsMatches(S) /\ resp[S].status = 200) =>
        LET n == Len(Candidates(S))
            l == req[S].limit
            k == IF l.given /\ l.val > 0 THEN Min(n, l.val) ELSE Min(n, 10)
        IN  resp[S].items = SubSeq(Candidates(S), 1, k)

\* the upstream record behind the i-th returned item
Source(i) == MatchList(upstream)[i]

\* the request of the sequential worker returned normalised upstream records
Normalised == IsMatches(S) /\ resp[S].status = 200 /\ resp[S].source = "play-cricket"

\* the first candidate if it is present and not null, else the second, else null
FirstNonNull(m, a, b) ==
    IF m[a] \notin {Missing, Null} THEN m[a]
    ELSE IF m[b] # Missing THEN m[b] ELSE Null

\* the first candidate if it is present, not null and not empty; else the second
\* candidate's value as it stands, null when it is missing
FirstNonEmpty(m, a, b) ==
    IF m[a] \notin {Missing, Null, Empty} THEN m[a]
    ELSE IF m[b] # Missing THEN m[b] ELSE Null

\* C4 as stated: every output field is the first of its two candidates that is
\* not null.
C4_FirstNonNullCandidate ==
    Normalised =>
        \A i \in 1..Len(resp[S].items) :
            LET m == Source(i)
                v == resp[S].items[i]
            IN  /\ v.date = FirstNonNull(m, "match_date", "date")
                /\ v.opposition = FirstNonNull(m, "opposition_club_name", "opposition_name")
                /\ v.ground = FirstNonNull(m, "ground_name", "ground")
                /\ v.competition = FirstNonNull(m, "competition_name", "competition")
                /\ req[S].kind = "fixtures" =>
                      v.start_time = FirstNonNull(m, "start_time", "start_time_formatted")
                /\ req[S].kind = "results" =>
                      /\ v.result = FirstNonNull(m, "result", "result_description")
                      /\ v.score = FirstNonNull(m, "home_club_scorecard", "score_summary")

\* C4 as amended: every output field is resolved from its own two candidates and
\* is the first candidate when that is neither null nor empty, and otherwise the
\* second candidate's value as it stands (null when the record has none).
C4_FirstNonEmptyCandidate ==
    Normalised =>
        \A i \in 1..Len(resp[S].items) :
            LET m == Source(i)
                v == resp[S].items[i]
            IN  /\ v.date = FirstNonEmpty(m, "match_date", "date")
                /\ v.opposition = FirstNonEmpty(m, "opposition_club_name", "opposition_name")
                /\ v.ground = FirstNonEmpty(m, "ground_name", "ground")
                /\ v.competition = FirstNonEmpty(m, "competition_name", "competition")
                /\ req[S].kind = "fixtures" =>
                      v.start_time = FirstNonEmpty(m, "start_time", "start_time_formatted")
                /\ req[S].kind = "results" =>
                      /\ v.result = FirstNonEmpty(m, "result", "result_description")
                      /\ v.score = FirstNonEmpty(m, "home_club_scorecard", "score_summary")

\* an empty match_date gives way to date
C4_Witness ==
    /\ Normalised /\ req[S].kind = "results"
    /\ Len(resp[S].items) = 1
    /\ Source(1)["match_date"] = Empty
    /\ Source(1)["date"] = "date"
    /\ resp[S].items[1].date = "date"

\* C5 as stated: home_away is the record's home_away field whenever the record
\* has one (a null one aside); without one it is "Home" for is_home true and
\* "Away" for false.
C5_ExplicitHomeAwayWins ==
    Normalised =>
        \A i \in 1..Len(resp[S].items) :
            LET m == Source(i)
                v == resp[S].items[i]
            IN  /\ m["home_away"] \notin {Missing, Null} => v.home_away = m["home_away"]
                /\ (m["home_away"] = Missing /\ m["is_home"] = JTrue) => v.home_away = "Home"
                /\ (m["home_away"] = Missing /\ m["is_home"] = JFalse) => v.home_away = "Away"

\* C5 as amended: home_away is the record's home_away field whenever that field
\* holds a non-empty value, whatever is_home is; when the field is missing, null
\* or empty it is "Home" if is_home is true and "Away" if is_home is false,
\* null or missing.
C5_NonEmptyHomeAwayWins ==
    Normalised =>
        \A i \in 1..Len(resp[S].items) :
            LET m == Source(i)
                v == resp[S].items[i]
            IN  IF m["home_away"] \notin {Missing, Null, Empty}
                THEN v.home_away = m["home_away"]
                ELSE v.home_away = (IF m["is_home"] = JTrue THEN "Home" ELSE "Away")

\* an empty home_away beside a set flag: the flag decides
C5_Witness ==
    /\ Normalised
    /\ Len(resp[S].items) = 1
    /\ Source(1)["home_away"] = Empty
    /\ Source(1)["is_home"] = JTrue
    /\ resp[S].items[1].home_away = "Home"

====
